---- MODULE Spec2Model ----
(***************************************************************************)
(* A model of open-vm-tools/lib/misc/hostinfoHV.c: hypervisor detection    *)
(* through CPUID and the VMware backdoor.                                   *)
(*                                                                         *)
(* A 32-bit word (uint32) is the pair <<hi, lo>> of its 16-bit halves, so   *)
(* that every value up to 0xFFFFFFFF is kept at its width and compared as   *)
(* an unsigned integer.                                                     *)
(***************************************************************************)
EXTENDS Integers, Sequences, FiniteSets, TLC

VARIABLES
    build,              \* the compiled artifact: which #if branches are in
    hw,                 \* what the processor's CPUID reports (fixed hardware)
    interface,          \* static BackdoorInterface interface      (line 109)
    hypervisorPresent,  \* static Bool hypervisorPresent           (line 167)
    last,               \* the most recent completed call and what it did
    retGI,              \* values HostinfoBackdoorGetInterface has returned
    retHP,              \* values Hostinfo_HypervisorPresent has returned
    writesGI,           \* values stored to 'interface'
    writesHP,           \* values stored to 'hypervisorPresent'
    pc,                 \* per thread: where it stands in a racing call
    dump                \* the call of Hostinfo_LogHypervisorCPUID in progress

vars == <<build, hw, interface, hypervisorPresent, last, retGI, retHP,
          writesGI, writesHP, pc, dump>>

----------------------------------------------------------------------------
(* uint32 arithmetic on <<hi, lo>>                                          *)

W(hi, lo) == <<hi, lo>>

U32Zero == W(0, 0)

U32AllOnes == W(65535, 65535)

\* unsigned a < b
U32Lt(a, b) == a[1] < b[1] \/ (a[1] = b[1] /\ a[2] < b[2])

\* unsigned a >= b
U32Ge(a, b) == ~U32Lt(a, b)

\* a + 1, truncated to 32 bits
U32Inc(a) ==
    IF a[2] < 65535 THEN W(a[1], a[2] + 1) ELSE W((a[1] + 1) % 65536, 0)

\* ~a
U32Not(a) == W(65535 - a[1], 65535 - a[2])

\* a << n for 0 <= n <= 31, truncated to 32 bits
U32Shl(a, n) ==
    IF n < 16
    THEN W((a[1] * 2^n + a[2] \div 2^(16 - n)) % 65536, (a[2] * 2^n) % 65536)
    ELSE W((a[2] * 2^(n - 16)) % 65536, 0)

RECURSIVE And16(_, _, _)
\* bitwise and of the low k bits of two halves
And16(x, y, k) ==
    IF k = 0 THEN 0
    ELSE (IF x % 2 = 1 /\ y % 2 = 1 THEN 1 ELSE 0)
         + 2 * And16(x \div 2, y \div 2, k - 1)

RECURSIVE Or16(_, _, _)
\* bitwise or of the low k bits of two halves
Or16(x, y, k) ==
    IF k = 0 THEN 0
    ELSE (IF x % 2 = 1 \/ y % 2 = 1 THEN 1 ELSE 0)
         + 2 * Or16(x \div 2, y \div 2, k - 1)

\* a & b
U32And(a, b) == W(And16(a[1], b[1], 16), And16(a[2], b[2], 16))

\* a | b
U32Or(a, b) == W(Or16(a[1], b[1], 16), Or16(a[2], b[2], 16))

\* the word whose four bytes, lowest address first, are b0 b1 b2 b3
\* (x86 is little-endian: *(const uint32 *)(s + i))
WordOfBytes(b0, b1, b2, b3) == W(b3 * 256 + b2, b1 * 256 + b0)

\* the four bytes of a word as they lie in memory, lowest address first
BytesOfWord(w) == <<w[2] % 256, w[2] \div 256, w[1] % 256, w[1] \div 256>>

----------------------------------------------------------------------------
(* Names from the headers hostinfoHV.c includes (x86cpuid.h, backdoor_def.h, *)
(* backdoor_types.h).                                                       *)

BACKDOOR_INTERFACE_NONE == "NONE"

BACKDOOR_INTERFACE_IO == "IO"

BACKDOOR_INTERFACE_VMCALL == "VMCALL"

BACKDOOR_INTERFACE_VMMCALL == "VMMCALL"

\* CPUID leaf 1
CPUID_FEATURE_INFORMATION == W(0, 1)

\* CPUID leaf 0x40000000
CPUID_HYPERVISOR_LEVEL_0 == W(16384, 0)

\* CPUID leaf 0x40000010
CPUID_VMW_FEATURES == W(16384, 16)

\* leaf 1, ECX bit 31
HYPERVISOR_BIT == 31

\* leaf 0x40000010, ECX bit 0
VMCALL_BACKDOOR_BIT == 0

\* leaf 0x40000010, ECX bit 1
VMMCALL_BACKDOOR_BIT == 1

\* "VMwareVMware"
CPUID_VMWARE_HYPERVISOR_VENDOR_STRING ==
    <<86, 77, 119, 97, 114, 101, 86, 77, 119, 97, 114, 101>>

\* 0x564D5868
BDOOR_MAGIC == W(22093, 22632)

\* 0x5658
BDOOR_PORT == W(0, 22104)

\* BDOOR_FLAGS_LB | BDOOR_FLAGS_READ (line 56)
BDOOR_FLAGS_LB_READ == W(0, 1)

BDOOR_CMD_GETVERSION == 10

BDOOR_CMD_NESTING_CONTROL == 66

BDOOR_CMD_GET_VCPU_INFO == 68

BDOOR_CMD_GETBUILDNUM == 81

NESTING_CONTROL_QUERY == 2

BDOOR_CMD_VCPU_SYNC_VTSCS == 1

BDOOR_CMD_VCPU_RESERVED == 31

\* CPUID_ISSET(leaf, reg, flag, data): ((data) & mask-of-flag) != 0
CPUID_ISSET(bit, data) == U32And(data, U32Shl(W(0, 1), bit)) # U32Zero

\* CPUID_IsRawVendor(regs, vendor): ebx, ecx, edx against the string's words
CPUID_IsRawVendor(regs, vendor) ==
    /\ regs.ebx = WordOfBytes(vendor[1], vendor[2], vendor[3], vendor[4])
    /\ regs.ecx = WordOfBytes(vendor[5], vendor[6], vendor[7], vendor[8])
    /\ regs.edx = WordOfBytes(vendor[9], vendor[10], vendor[11], vendor[12])

----------------------------------------------------------------------------
(* The processor: what the cpuid instruction reports on this machine.       *)

\* "KVMKVMKVM\0\0\0"
VendorKVM == <<75, 86, 77, 75, 86, 77, 75, 86, 77, 0, 0, 0>>

\* "Microsoft Hv"
VendorHyperV == <<77, 105, 99, 114, 111, 115, 111, 102, 116, 32, 72, 118>>

Vendors == {CPUID_VMWARE_HYPERVISOR_VENDOR_STRING, VendorKVM, VendorHyperV}

\* eax of leaf 0x40000000: 0, 0x40000000, 0x40000001, 0x4000000F,
\* 0x40000010, 0xFFFFFFFF
MaxLeaves ==
    {W(0, 0), W(16384, 0), W(16384, 1), W(16384, 15), W(16384, 16),
     W(65535, 65535)}

\* ecx of leaf 0x40000010: neither bit, VMCALL (and an unrelated bit),
\* VMMCALL, both
FeatureWords == {W(0, 0), W(0, 5), W(0, 2), W(0, 3)}

\* eax of leaf 0x40000001: none, "VMw\0"-style revision
InterfaceRevs == {W(0, 0), W(12598, 22600)}

\* every machine tried by the CPUID readers
Hardware ==
    [hvBit : BOOLEAN, vendor : Vendors, maxLeaf : MaxLeaves,
     features : FeatureWords, ifaceRev : InterfaceRevs]

\* a machine with ifaceRev "VMw\0"-style
Machine(hv, vendor, maxLeaf, features) ==
    [hvBit |-> hv, vendor |-> vendor, maxLeaf |-> maxLeaf,
     features |-> features, ifaceRev |-> W(12598, 22600)]

\* One machine for each way through the selector's decision: no hypervisor
\* bit (the hypervisor leaves answering as VMware's would); another vendor;
\* VMware with the maximum leaf just below the feature leaf; VMware with
\* neither capability, VMCALL, VMMCALL, both.
SelectorHardware ==
    {Machine(FALSE, CPUID_VMWARE_HYPERVISOR_VENDOR_STRING, W(16384, 16),
             W(0, 3)),
     Machine(TRUE, VendorKVM, W(16384, 16), W(0, 3)),
     Machine(TRUE, CPUID_VMWARE_HYPERVISOR_VENDOR_STRING, W(16384, 15),
             W(0, 3)),
     Machine(TRUE, CPUID_VMWARE_HYPERVISOR_VENDOR_STRING, W(16384, 16),
             W(0, 0)),
     Machine(TRUE, CPUID_VMWARE_HYPERVISOR_VENDOR_STRING, W(16384, 16),
             W(0, 5)),
     Machine(TRUE, CPUID_VMWARE_HYPERVISOR_VENDOR_STRING, W(16384, 16),
             W(0, 2)),
     Machine(TRUE, CPUID_VMWARE_HYPERVISOR_VENDOR_STRING, W(16384, 16),
             W(0, 3))}

Builds == {"linux_hypercall", "linux_io", "win32"}

\* #if defined(USE_HYPERCALL): Linux, gcc newer than 4.8.3, not aarch64
USE_HYPERCALL == build = "linux_hypercall"

\* __GET_CPUID(leaf, &regs) on this machine
CPUID(leaf) ==
    IF leaf = CPUID_FEATURE_INFORMATION
    THEN [eax |-> W(6, 1765), ebx |-> W(1, 2048),
          ecx |-> W((IF hw.hvBit THEN 32768 ELSE 0) + 30458, 12803),
          edx |-> W(3051, 64511)]
    ELSE IF leaf = CPUID_HYPERVISOR_LEVEL_0
    THEN [eax |-> hw.maxLeaf,
          ebx |-> WordOfBytes(hw.vendor[1], hw.vendor[2], hw.vendor[3],
                              hw.vendor[4]),
          ecx |-> WordOfBytes(hw.vendor[5], hw.vendor[6], hw.vendor[7],
                              hw.vendor[8]),
          edx |-> WordOfBytes(hw.vendor[9], hw.vendor[10], hw.vendor[11],
                              hw.vendor[12])]
    ELSE IF leaf = W(16384, 1)
    THEN [eax |-> hw.ifaceRev, ebx |-> U32Zero, ecx |-> U32Zero,
          edx |-> U32Zero]
    ELSE IF leaf = CPUID_VMW_FEATURES
    THEN [eax |-> W(45, 50880), ebx |-> W(1, 469), ecx |-> hw.features,
          edx |-> U32Zero]
    ELSE [eax |-> U32Zero, ebx |-> U32Zero, ecx |-> U32Zero, edx |-> U32Zero]

----------------------------------------------------------------------------
(* HostinfoBackdoorGetInterface, lines 103-145                              *)

\* the capability bits tested in the other order
HostinfoFeatureInterface_VmmcallFirst(features) ==
    IF CPUID_ISSET(VMMCALL_BACKDOOR_BIT, features)
    THEN BACKDOOR_INTERFACE_VMMCALL
    ELSE IF CPUID_ISSET(VMCALL_BACKDOOR_BIT, features)
    THEN BACKDOOR_INTERFACE_VMCALL
    ELSE BACKDOOR_INTERFACE_NONE

\* lines 123-129: the interface the capability bits of 'features' select,
\* VMCALL tested first; NONE when neither is set
HostinfoFeatureInterface(features) ==
    IF CPUID_ISSET(VMCALL_BACKDOOR_BIT, features)
    THEN BACKDOOR_INTERFACE_VMCALL
    ELSE IF CPUID_ISSET(VMMCALL_BACKDOOR_BIT, features)
    THEN BACKDOOR_INTERFACE_VMMCALL
    ELSE BACKDOOR_INTERFACE_NONE

\* lines 113-132: the CPUID probe. store is what it assigns to 'interface'
\* (NONE: it assigns nothing); reads are the leaves it reads, in order.
HostinfoProbeInterface ==
    LET regs1 == CPUID(CPUID_FEATURE_INFORMATION)
        regs0 == CPUID(CPUID_HYPERVISOR_LEVEL_0)
        features == CPUID(CPUID_VMW_FEATURES).ecx
    IN  IF CPUID_ISSET(HYPERVISOR_BIT, regs1.ecx)
        THEN IF CPUID_IsRawVendor(regs0, CPUID_VMWARE_HYPERVISOR_VENDOR_STRING)
             THEN IF U32Ge(CPUID(CPUID_HYPERVISOR_LEVEL_0).eax,
                           CPUID_VMW_FEATURES)
                  THEN [store |-> HostinfoFeatureInterface(features),
                        reads |-> <<CPUID_FEATURE_INFORMATION,
                                    CPUID_HYPERVISOR_LEVEL_0,
                                    CPUID_HYPERVISOR_LEVEL_0,
                                    CPUID_VMW_FEATURES>>]
                  ELSE [store |-> BACKDOOR_INTERFACE_NONE,
                        reads |-> <<CPUID_FEATURE_INFORMATION,
                                    CPUID_HYPERVISOR_LEVEL_0,
                                    CPUID_HYPERVISOR_LEVEL_0>>]
             ELSE [store |-> BACKDOOR_INTERFACE_NONE,
                   reads |-> <<CPUID_FEATURE_INFORMATION,
                               CPUID_HYPERVISOR_LEVEL_0>>]
        ELSE [store |-> BACKDOOR_INTERFACE_NONE,
              reads |-> <<CPUID_FEATURE_INFORMATION>>]

\* lines 133-135 left out
HostinfoFallbackInterface_Missing(cur) == cur

\* line 134 without the test of line 133
HostinfoFallbackInterface_Unconditional(cur) == BACKDOOR_INTERFACE_IO

\* lines 133-135: if (interface == NONE) interface = IO; the value
\* 'interface' holds afterwards, given the value cur it holds before
HostinfoFallbackInterface(cur) ==
    IF cur = BACKDOOR_INTERFACE_NONE THEN BACKDOOR_INTERFACE_IO ELSE cur

\* The(S): the element of a singleton set. A result used several times is
\* bound through one, {e(x) : x \in {v}}, so that it is computed once.
The(S) == CHOOSE x \in S : TRUE

\* One whole call with no other thread running, 'interface' holding cur.
\* ret: the value returned; cache: the static afterwards; reads: the
\* CPUID leaves read; stores: the values assigned to the static, in order.
HostinfoBackdoorGetInterface(cur) ==
    IF ~USE_HYPERCALL
    THEN [ret |-> BACKDOOR_INTERFACE_IO, cache |-> cur,
          reads |-> <<>>, stores |-> <<>>]
    ELSE IF cur = BACKDOOR_INTERFACE_NONE
    THEN The({LET probed == IF p.store # BACKDOOR_INTERFACE_NONE
                            THEN p.store ELSE cur
                  final == HostinfoFallbackInterface(probed)
              IN  [ret |-> final, cache |-> final, reads |-> p.reads,
                   stores |-> (IF p.store # BACKDOOR_INTERFACE_NONE
                               THEN <<p.store>> ELSE <<>>)
                              \o (IF final # probed THEN <<final>>
                                  ELSE <<>>)]
              : p \in {HostinfoProbeInterface}})
    ELSE [ret |-> cur, cache |-> cur, reads |-> <<>>, stores |-> <<>>]

----------------------------------------------------------------------------
(* Hostinfo_HypervisorPresent, lines 163-177                                *)

\* lines 171-173: the value assigned to hypervisorPresent
HostinfoProbePresent ==
    CPUID_ISSET(HYPERVISOR_BIT, CPUID(CPUID_FEATURE_INFORMATION).ecx)

\* line 175 returning the value read at line 170
Hostinfo_HypervisorPresent_StaleReturn(cur) ==
    IF ~cur
    THEN The({[ret |-> cur, cache |-> v,
               reads |-> <<CPUID_FEATURE_INFORMATION>>, stores |-> <<v>>]
              : v \in {HostinfoProbePresent}})
    ELSE [ret |-> cur, cache |-> cur, reads |-> <<>>, stores |-> <<>>]

\* without the test of line 170
Hostinfo_HypervisorPresent_NoCache(cur) ==
    The({[ret |-> v, cache |-> v,
          reads |-> <<CPUID_FEATURE_INFORMATION>>, stores |-> <<v>>]
         : v \in {HostinfoProbePresent}})

\* One whole call with no other thread running, the static holding cur.
Hostinfo_HypervisorPresent(cur) ==
    IF ~cur
    THEN The({[ret |-> v, cache |-> v,
               reads |-> <<CPUID_FEATURE_INFORMATION>>, stores |-> <<v>>]
              : v \in {HostinfoProbePresent}})
    ELSE [ret |-> cur, cache |-> cur, reads |-> <<>>, stores |-> <<>>]

----------------------------------------------------------------------------
(* The signature readers, lines 197-223 and 290-317                         *)

\* a char * result: NULL, or a buffer of Util_SafeMalloc'ed 32-bit words
NULL == [isNull |-> TRUE, words |-> <<>>]

Buffer(words) == [isNull |-> FALSE, words |-> words]

LogNoVendorSig == "CPUID hypervisor bit is set, but no hypervisor vendor signature is present."

LogNoInterfaceSig == "CPUID hypervisor bit is set, but no hypervisor interface signature is present."

\* name[1] and name[2] filled in the register order of leaf 0 (ebx, edx, ecx)
Hostinfo_HypervisorCPUIDSig_LeafZeroOrder(cur) ==
    The({IF ~p.ret
         THEN [ret |-> NULL, cache |-> p.cache, present |-> p.ret,
               stores |-> p.stores, reads |-> p.reads, allocs |-> <<>>,
               logs |-> <<>>]
         ELSE [ret |-> Buffer(<<regs.ebx, regs.edx, regs.ecx, U32Zero>>),
               cache |-> p.cache, present |-> p.ret, stores |-> p.stores,
               reads |-> p.reads \o <<W(16384, 0)>>,
               allocs |-> <<4>>,
               logs |-> IF U32Lt(regs.eax, W(16384, 0))
                        THEN <<LogNoVendorSig>> ELSE <<>>]
         : p \in {Hostinfo_HypervisorPresent(cur)},
           regs \in {CPUID(W(16384, 0))}})

\* without the return of lines 204-206
Hostinfo_HypervisorCPUIDSig_NoGate(cur) ==
    The({[ret |-> Buffer(<<regs.ebx, regs.ecx, regs.edx, U32Zero>>),
          cache |-> p.cache, present |-> p.ret, stores |-> p.stores,
          reads |-> p.reads \o <<W(16384, 0)>>,
          allocs |-> <<4>>,
          logs |-> IF U32Lt(regs.eax, W(16384, 0))
                   THEN <<LogNoVendorSig>> ELSE <<>>]
         : p \in {Hostinfo_HypervisorPresent(cur)},
           regs \in {CPUID(W(16384, 0))}})

\* Hostinfo_HypervisorCPUIDSig with the presence static holding cur.
\* present: what Hostinfo_HypervisorPresent returned to it; allocs: the
\* sizes, in 32-bit words, of the Util_SafeMalloc calls; logs: the Log lines.
Hostinfo_HypervisorCPUIDSig(cur) ==
    The({IF ~p.ret
         THEN [ret |-> NULL, cache |-> p.cache, present |-> p.ret,
               stores |-> p.stores, reads |-> p.reads, allocs |-> <<>>,
               logs |-> <<>>]
         ELSE [ret |-> Buffer(<<regs.ebx, regs.ecx, regs.edx, U32Zero>>),
               cache |-> p.cache, present |-> p.ret, stores |-> p.stores,
               reads |-> p.reads \o <<W(16384, 0)>>,
               allocs |-> <<4>>,
               logs |-> IF U32Lt(regs.eax, W(16384, 0))
                        THEN <<LogNoVendorSig>> ELSE <<>>]
         : p \in {Hostinfo_HypervisorPresent(cur)},
           regs \in {CPUID(W(16384, 0))}})

\* without the return of line 305
Hostinfo_HypervisorInterfaceSig_NoReturn(cur) ==
    The({IF ~p.ret
         THEN [ret |-> NULL, cache |-> p.cache, present |-> p.ret,
               stores |-> p.stores, reads |-> p.reads, allocs |-> <<>>,
               logs |-> <<>>]
         ELSE [ret |-> IF regs1.eax # U32Zero
                       THEN Buffer(<<regs1.eax, U32Zero>>) ELSE NULL,
               cache |-> p.cache, present |-> p.ret, stores |-> p.stores,
               reads |-> p.reads \o <<W(16384, 0), W(16384, 1)>>,
               allocs |-> IF regs1.eax # U32Zero THEN <<2>> ELSE <<>>,
               logs |-> IF U32Lt(regs0.eax, W(16384, 1))
                        THEN <<LogNoInterfaceSig>> ELSE <<>>]
         : p \in {Hostinfo_HypervisorPresent(cur)},
           regs0 \in {CPUID(W(16384, 0))}, regs1 \in {CPUID(W(16384, 1))}})

\* without the test of line 309
Hostinfo_HypervisorInterfaceSig_NoZeroTest(cur) ==
    The({IF ~p.ret
         THEN [ret |-> NULL, cache |-> p.cache, present |-> p.ret,
               stores |-> p.stores, reads |-> p.reads, allocs |-> <<>>,
               logs |-> <<>>]
         ELSE IF U32Lt(regs0.eax, W(16384, 1))
         THEN [ret |-> NULL, cache |-> p.cache, present |-> p.ret,
               stores |-> p.stores, reads |-> p.reads \o <<W(16384, 0)>>,
               allocs |-> <<>>, logs |-> <<LogNoInterfaceSig>>]
         ELSE [ret |-> Buffer(<<regs1.eax, U32Zero>>), cache |-> p.cache,
               present |-> p.ret, stores |-> p.stores,
               reads |-> p.reads \o <<W(16384, 0), W(16384, 1)>>,
               allocs |-> <<2>>, logs |-> <<>>]
         : p \in {Hostinfo_HypervisorPresent(cur)},
           regs0 \in {CPUID(W(16384, 0))}, regs1 \in {CPUID(W(16384, 1))}})

\* Hostinfo_HypervisorInterfaceSig with the presence static holding cur.
Hostinfo_HypervisorInterfaceSig(cur) ==
    The({IF ~p.ret
         THEN [ret |-> NULL, cache |-> p.cache, present |-> p.ret,
               stores |-> p.stores, reads |-> p.reads, allocs |-> <<>>,
               logs |-> <<>>]
         ELSE IF U32Lt(regs0.eax, W(16384, 1))
         THEN [ret |-> NULL, cache |-> p.cache, present |-> p.ret,
               stores |-> p.stores, reads |-> p.reads \o <<W(16384, 0)>>,
               allocs |-> <<>>, logs |-> <<LogNoInterfaceSig>>]
         ELSE IF regs1.eax # U32Zero
         THEN [ret |-> Buffer(<<regs1.eax, U32Zero>>), cache |-> p.cache,
               present |-> p.ret, stores |-> p.stores,
               reads |-> p.reads \o <<W(16384, 0), W(16384, 1)>>,
               allocs |-> <<2>>, logs |-> <<>>]
         ELSE [ret |-> NULL, cache |-> p.cache, present |-> p.ret,
               stores |-> p.stores,
               reads |-> p.reads \o <<W(16384, 0), W(16384, 1)>>,
               allocs |-> <<>>, logs |-> <<>>]
         : p \in {Hostinfo_HypervisorPresent(cur)},
           regs0 \in {CPUID(W(16384, 0))}, regs1 \in {CPUID(W(16384, 1))}})

----------------------------------------------------------------------------
(* Hostinfo_LogHypervisorCPUID, lines 239-269                               *)

LogNotFound == "Hypervisor not found. CPUID hypervisor bit is not set."

LogHeader == "CPUID level EAX EBX ECX EDX"

\* line 252 with the ceiling one leaf too high
DumpMaxLeaf_CeilingOff(eax) ==
    IF U32Lt(W(16384, 256), eax) THEN W(16384, 256) ELSE eax

\* line 252: maxLeaf = regs.eax > 0x400000FF ? 0x400000FF : regs.eax
DumpMaxLeaf(eax) ==
    IF U32Lt(W(16384, 255), eax) THEN W(16384, 255) ELSE eax

\* lines 261-263: the line logged for leafId, with its four registers
DumpLine(leafId) == [leaf |-> leafId, regs |-> CPUID(leafId)]

----------------------------------------------------------------------------
(* The backdoor exchange and the hypervisor answering it                    *)

\* Vmcall(cmd, result), lines 58-65: the registers loaded and the instruction
Vmcall(cmd) ==
    [insn |-> "vmcall", eax |-> BDOOR_MAGIC, ecx |-> cmd,
     edx |-> BDOOR_FLAGS_LB_READ]

\* Vmmcall(cmd, result), lines 67-74
Vmmcall(cmd) ==
    [insn |-> "vmmcall", eax |-> BDOOR_MAGIC, ecx |-> cmd,
     edx |-> BDOOR_FLAGS_LB_READ]

\* Ioportcall(cmd, result), lines 76-83
Ioportcall(cmd) ==
    [insn |-> "inl", eax |-> BDOOR_MAGIC, ecx |-> cmd, edx |-> BDOOR_PORT]

\* The selector as the feature queries reach it: the Windows variants
\* (lines 454-735) never call it and always use the I/O port.
HostinfoSelect(cur) ==
    IF build = "win32"
    THEN [ret |-> BACKDOOR_INTERFACE_IO, cache |-> cur, reads |-> <<>>,
          stores |-> <<>>, called |-> FALSE]
    ELSE The({[ret |-> g.ret, cache |-> g.cache, reads |-> g.reads,
               stores |-> g.stores, called |-> TRUE]
              : g \in {HostinfoBackdoorGetInterface(cur)}})

\* the switch falling to the port for every interface
BackdoorExchange_AlwaysPort(iface, cmd) == Ioportcall(cmd)

\* switch (HostinfoBackdoorGetInterface()) { ... } of lines 906-918, 957-969
\* and 1003-1015: the exchange issued for the selected interface
BackdoorExchange(iface, cmd) ==
    IF USE_HYPERCALL /\ iface = BACKDOOR_INTERFACE_VMCALL THEN Vmcall(cmd)
    ELSE IF USE_HYPERCALL /\ iface = BACKDOOR_INTERFACE_VMMCALL
    THEN Vmmcall(cmd)
    ELSE Ioportcall(cmd)

\* What the (stub) hypervisor leaves in ebx after GETVERSION. A stub that
\* echoes copies the magic it was handed in eax; one that does not handle the
\* access leaves ebx as it was; a corrupting one writes another value.
StubEbxModes == {"echo", "leave", "corrupt"}

StubEbx(mode, req) ==
    IF mode = "echo" THEN req.eax
    ELSE IF mode = "leave" THEN req.ebx
    ELSE W(22093, 22633)

\* eax after the exchange: 0, 1, 2, 0x12, 0x80000012, 0xFFFFFFFF
StubResponses ==
    {W(0, 0), W(0, 1), W(0, 2), W(0, 18), W(32768, 18), W(65535, 65535)}

\* the 'bit' arguments tried: SLC64, SYNC_VTSCS, MMIO_HONORS_PAT, RESERVED
VCPUBits == {0, 1, 4, 31}

NoStub == [eax |-> U32Zero, ebx |-> "leave"]

----------------------------------------------------------------------------
(* The feature queries                                                      *)

\* ebx preloaded with BDOOR_MAGIC instead of ~BDOOR_MAGIC
TouchRequest_MagicPreloaded ==
    [insn |-> "inl", eax |-> BDOOR_MAGIC, ebx |-> BDOOR_MAGIC,
     ecx |-> W(0, BDOOR_CMD_GETVERSION), edx |-> BDOOR_PORT]

\* the registers Hostinfo_TouchBackDoor loads before "inl" (lines 793-796,
\* 494-497, 507-510)
TouchRequest ==
    [insn |-> "inl", eax |-> BDOOR_MAGIC, ebx |-> U32Not(BDOOR_MAGIC),
     ecx |-> W(0, BDOOR_CMD_GETVERSION), edx |-> BDOOR_PORT]

\* Hostinfo_TouchBackDoor: lines 764-826 (and 486-520 on Windows)
Hostinfo_TouchBackDoor(cur, stub) ==
    The({IF USE_HYPERCALL /\ g.ret \in {BACKDOOR_INTERFACE_VMCALL,
                                        BACKDOOR_INTERFACE_VMMCALL}
         THEN [ret |-> TRUE, iface |-> g.ret, cache |-> g.cache,
               reads |-> g.reads, stores |-> g.stores, called |-> g.called,
               exch |-> <<>>]
         ELSE [ret |-> (StubEbx(stub.ebx, TouchRequest) = BDOOR_MAGIC),
               iface |-> g.ret, cache |-> g.cache, reads |-> g.reads,
               stores |-> g.stores, called |-> g.called,
               exch |-> <<TouchRequest>>]
         : g \in {HostinfoSelect(cur)}})

\* uint32 cmd = NESTING_CONTROL_QUERY << 16 | BDOOR_CMD_NESTING_CONTROL
NestingCommand ==
    U32Or(U32Shl(W(0, NESTING_CONTROL_QUERY), 16),
          W(0, BDOOR_CMD_NESTING_CONTROL))

\* without "&& result != ~0U"
Hostinfo_NestingSupported_NoSentinel(cur, stub) ==
    The({[ret |-> U32Ge(stub.eax, W(0, NESTING_CONTROL_QUERY)),
          iface |-> g.ret, cache |-> g.cache, reads |-> g.reads,
          stores |-> g.stores, called |-> g.called,
          exch |-> <<BackdoorExchange(g.ret, NestingCommand)>>]
         : g \in {HostinfoSelect(cur)}})

\* Hostinfo_NestingSupported: lines 899-926 (and 594-628 on Windows)
Hostinfo_NestingSupported(cur, stub) ==
    The({[ret |-> (U32Ge(stub.eax, W(0, NESTING_CONTROL_QUERY))
                   /\ stub.eax # U32Not(U32Zero)),
          iface |-> g.ret, cache |-> g.cache, reads |-> g.reads,
          stores |-> g.stores, called |-> g.called,
          exch |-> <<BackdoorExchange(g.ret, NestingCommand)>>]
         : g \in {HostinfoSelect(cur)}})

\* without the test of the reserved bit
Hostinfo_VCPUInfoBackdoor_NoReserved(cur, bit, stub) ==
    The({[ret |-> (U32And(stub.eax, U32Shl(W(0, 1), bit)) # U32Zero),
          iface |-> g.ret, cache |-> g.cache, reads |-> g.reads,
          stores |-> g.stores, called |-> g.called,
          exch |-> <<BackdoorExchange(g.ret,
                                      W(0, BDOOR_CMD_GET_VCPU_INFO))>>]
         : g \in {HostinfoSelect(cur)}})

\* Hostinfo_VCPUInfoBackdoor(bit): lines 950-975 (and 652-684 on Windows)
Hostinfo_VCPUInfoBackdoor(cur, bit, stub) ==
    The({[ret |-> (U32And(stub.eax,
                          U32Shl(W(0, 1), BDOOR_CMD_VCPU_RESERVED))
                       = U32Zero
                   /\ U32And(stub.eax, U32Shl(W(0, 1), bit)) # U32Zero),
          iface |-> g.ret, cache |-> g.cache, reads |-> g.reads,
          stores |-> g.stores, called |-> g.called,
          exch |-> <<BackdoorExchange(g.ret,
                                      W(0, BDOOR_CMD_GET_VCPU_INFO))>>]
         : g \in {HostinfoSelect(cur)}})

\* Hostinfo_SynchronizedVTSCs: lines 443-451
Hostinfo_SynchronizedVTSCs(cur, stub) ==
    Hostinfo_VCPUInfoBackdoor(cur, BDOOR_CMD_VCPU_SYNC_VTSCS, stub)

\* Hostinfo_GetNestedBuildNum: lines 996-1019 (and 705-735 on Windows)
Hostinfo_GetNestedBuildNum(cur, stub) ==
    The({[num |-> stub.eax, iface |-> g.ret, cache |-> g.cache,
          reads |-> g.reads, stores |-> g.stores, called |-> g.called,
          exch |-> <<BackdoorExchange(g.ret, W(0, BDOOR_CMD_GETBUILDNUM))>>]
         : g \in {HostinfoSelect(cur)}})

----------------------------------------------------------------------------
(* State                                                                    *)

\* threads that may race on the two statics
NThreads == 2

Threads == 1..NThreads

Range(s) == {s[i] : i \in 1..Len(s)}

\* no call has completed yet
NoCall ==
    [op |-> "none", arg |-> 0, stub |-> NoStub, ret |-> FALSE,
     iface |-> BACKDOOR_INTERFACE_NONE, called |-> FALSE, buf |-> NULL,
     num |-> U32Zero, reads |-> <<>>, allocs |-> <<>>, logs |-> <<>>,
     exch |-> <<>>, hpBefore |-> FALSE, hpCalledBefore |-> FALSE,
     giCalledBefore |-> FALSE]

\* no call of Hostinfo_LogHypervisorCPUID made yet
DumpIdle ==
    [pc |-> "idle", present |-> FALSE, maxLeaf |-> U32Zero,
     leafId |-> U32Zero, reads |-> <<>>, logs |-> <<>>]

\* the statics as the loader leaves them, no call made yet
Start ==
    /\ build \in Builds
    /\ interface = BACKDOOR_INTERFACE_NONE
    /\ hypervisorPresent = FALSE
    /\ last = NoCall
    /\ retGI = {}
    /\ retHP = {}
    /\ writesGI = {}
    /\ writesHP = {}
    /\ pc = [t \in Threads |-> "idle"]
    /\ dump = DumpIdle

Init == Start /\ hw \in SelectorHardware

InitCpuid == Start /\ hw \in Hardware

\* eax of leaf 0x40000000 as the leaf dump meets it: also the ceiling
\* 0x400000FF and the first value above it
DumpMaxLeaves == MaxLeaves \cup {W(16384, 255), W(16384, 256)}

\* the machines the leaf dump runs on
DumpHardware ==
    [hvBit : BOOLEAN, vendor : {CPUID_VMWARE_HYPERVISOR_VENDOR_STRING},
     maxLeaf : DumpMaxLeaves, features : {W(0, 5)},
     ifaceRev : InterfaceRevs]

InitDump == Start /\ hw \in DumpHardware

----------------------------------------------------------------------------
(* Whole calls, one after another                                           *)

CallGetInterface ==
    \E r \in {HostinfoBackdoorGetInterface(interface)} :
        /\ interface' = r.cache
        /\ last' = [NoCall EXCEPT !.op = "HostinfoBackdoorGetInterface",
                                  !.iface = r.ret, !.called = TRUE,
                                  !.reads = r.reads,
                                  !.giCalledBefore = (retGI # {})]
        /\ retGI' = retGI \cup {r.ret}
        /\ writesGI' = writesGI \cup Range(r.stores)
        /\ UNCHANGED <<dump, build, hw, hypervisorPresent, retHP, writesHP,
                       pc>>

CallHypervisorPresent ==
    \E r \in {Hostinfo_HypervisorPresent(hypervisorPresent)} :
        /\ hypervisorPresent' = r.cache
        /\ last' = [NoCall EXCEPT !.op = "Hostinfo_HypervisorPresent",
                                  !.ret = r.ret, !.reads = r.reads,
                                  !.hpBefore = hypervisorPresent,
                                  !.hpCalledBefore = (retHP # {})]
        /\ retHP' = retHP \cup {r.ret}
        /\ writesHP' = writesHP \cup Range(r.stores)
        /\ UNCHANGED <<dump, build, hw, interface, retGI, writesGI, pc>>

\* a signature reader's call, r being what it did
SignatureCall(name, r) ==
    /\ hypervisorPresent' = r.cache
    /\ last' = [NoCall EXCEPT !.op = name, !.ret = r.present, !.buf = r.ret,
                              !.reads = r.reads, !.allocs = r.allocs,
                              !.logs = r.logs,
                              !.hpBefore = hypervisorPresent,
                              !.hpCalledBefore = (retHP # {})]
    /\ retHP' = retHP \cup {r.present}
    /\ writesHP' = writesHP \cup Range(r.stores)
    /\ UNCHANGED <<dump, build, hw, interface, retGI, writesGI, pc>>

CallHypervisorCPUIDSig ==
    \E r \in {Hostinfo_HypervisorCPUIDSig(hypervisorPresent)} :
        SignatureCall("Hostinfo_HypervisorCPUIDSig", r)

CallHypervisorInterfaceSig ==
    \E r \in {Hostinfo_HypervisorInterfaceSig(hypervisorPresent)} :
        SignatureCall("Hostinfo_HypervisorInterfaceSig", r)

\* a feature query's call, r being what it did
QueryCall(name, arg, stub, r, ret, num) ==
    /\ interface' = r.cache
    /\ last' = [NoCall EXCEPT !.op = name, !.arg = arg, !.stub = stub,
                              !.ret = ret, !.num = num, !.iface = r.iface,
                              !.called = r.called, !.reads = r.reads,
                              !.exch = r.exch,
                              !.giCalledBefore = (retGI # {})]
    /\ retGI' = IF r.called THEN retGI \cup {r.iface} ELSE retGI
    /\ writesGI' = writesGI \cup Range(r.stores)
    /\ UNCHANGED <<dump, build, hw, hypervisorPresent, retHP, writesHP, pc>>

\* the stub hypervisor of a call: eax after the exchange, and what it does
\* to ebx
Stub(resp, mode) == [eax |-> resp, ebx |-> mode]

CallTouchBackDoor ==
    \E mode \in StubEbxModes :
        \E r \in {Hostinfo_TouchBackDoor(interface, Stub(W(0, 6), mode))} :
            QueryCall("Hostinfo_TouchBackDoor", 0, Stub(W(0, 6), mode), r,
                      r.ret, U32Zero)

CallNestingSupported ==
    \E resp \in StubResponses :
        \E r \in {Hostinfo_NestingSupported(interface,
                                            Stub(resp, "leave"))} :
            QueryCall("Hostinfo_NestingSupported", 0, Stub(resp, "leave"),
                      r, r.ret, U32Zero)

CallVCPUInfoBackdoor ==
    \E resp \in StubResponses, bit \in VCPUBits :
        \E r \in {Hostinfo_VCPUInfoBackdoor(interface, bit,
                                            Stub(resp, "leave"))} :
            QueryCall("Hostinfo_VCPUInfoBackdoor", bit, Stub(resp, "leave"),
                      r, r.ret, U32Zero)

CallSynchronizedVTSCs ==
    \E resp \in StubResponses :
        \E r \in {Hostinfo_SynchronizedVTSCs(interface,
                                             Stub(resp, "leave"))} :
            QueryCall("Hostinfo_SynchronizedVTSCs", 0, Stub(resp, "leave"),
                      r, r.ret, U32Zero)

CallGetNestedBuildNum ==
    \E resp \in StubResponses :
        \E r \in {Hostinfo_GetNestedBuildNum(interface,
                                             Stub(resp, "leave"))} :
            QueryCall("Hostinfo_GetNestedBuildNum", 0, Stub(resp, "leave"),
                      r, FALSE, r.num)

\* every operation of the module, called one after another
Next ==
    \/ CallGetInterface
    \/ CallHypervisorPresent
    \/ CallHypervisorCPUIDSig
    \/ CallHypervisorInterfaceSig
    \/ CallTouchBackDoor
    \/ CallNestingSupported
    \/ CallVCPUInfoBackdoor
    \/ CallSynchronizedVTSCs
    \/ CallGetNestedBuildNum

Spec == Init /\ [][Next]_vars

\* the CPUID readers, called one after another, on every machine
NextCpuid ==
    \/ CallGetInterface
    \/ CallHypervisorPresent
    \/ CallHypervisorCPUIDSig
    \/ CallHypervisorInterfaceSig

SpecCpuid == InitCpuid /\ [][NextCpuid]_vars

----------------------------------------------------------------------------
(* Hostinfo_LogHypervisorCPUID step by step: each CPUID read of the loop is *)
(* a step, so that the loop's termination is a property of the behaviours.  *)

\* no call of the leaf dump is in progress
DumpAtRest == dump.pc \in {"idle", "done"}

\* lines 246-249: the presence check and the return when it fails
LD_Enter ==
    /\ DumpAtRest
    /\ \E p \in {Hostinfo_HypervisorPresent(hypervisorPresent)} :
        /\ hypervisorPresent' = p.cache
        /\ retHP' = retHP \cup {p.ret}
        /\ writesHP' = writesHP \cup Range(p.stores)
        /\ dump' = [DumpIdle EXCEPT
                        !.pc = IF p.ret THEN "read_max" ELSE "done",
                        !.present = p.ret,
                        !.reads = p.reads,
                        !.logs = IF p.ret THEN <<>> ELSE <<LogNotFound>>]
    /\ UNCHANGED <<build, hw, interface, last, retGI, writesGI, pc>>

\* lines 251-259: read leaf 0x40000000, clamp the maximum, and either return
\* or log the header and start the loop at leafId = 0x40000000
LD_ReadMax ==
    /\ dump.pc = "read_max"
    /\ \E m \in {DumpMaxLeaf(CPUID(W(16384, 0)).eax)} :
        dump' = IF U32Lt(m, W(16384, 0))
                THEN [dump EXCEPT !.pc = "done", !.maxLeaf = m,
                                  !.reads = @ \o <<W(16384, 0)>>,
                                  !.logs = @ \o <<LogNoVendorSig>>]
                ELSE [dump EXCEPT !.pc = "loop", !.maxLeaf = m,
                                  !.leafId = W(16384, 0),
                                  !.reads = @ \o <<W(16384, 0)>>,
                                  !.logs = @ \o <<LogHeader>>]
    /\ UNCHANGED <<build, hw, interface, hypervisorPresent, last, retGI,
                   retHP, writesGI, writesHP, pc>>

\* lines 260-263: leafId <= maxLeaf holds; read and log the leaf, leafId++
LD_Loop ==
    /\ dump.pc = "loop"
    /\ ~U32Lt(dump.maxLeaf, dump.leafId)
    /\ dump' = [dump EXCEPT !.leafId = U32Inc(@),
                            !.reads = @ \o <<dump.leafId>>,
                            !.logs = @ \o <<DumpLine(dump.leafId)>>]
    /\ UNCHANGED <<build, hw, interface, hypervisorPresent, last, retGI,
                   retHP, writesGI, writesHP, pc>>

\* line 260 with leafId <= maxLeaf false, and the return of line 268
LD_Return ==
    /\ dump.pc = "loop"
    /\ U32Lt(dump.maxLeaf, dump.leafId)
    /\ dump' = [dump EXCEPT !.pc = "done"]
    /\ UNCHANGED <<build, hw, interface, hypervisorPresent, last, retGI,
                   retHP, writesGI, writesHP, pc>>

\* the steps inside a call of the leaf dump
DumpSteps == LD_ReadMax \/ LD_Loop \/ LD_Return

\* the leaf dump and the two signature readers, called one after another
NextDump ==
    \/ LD_Enter
    \/ LD_ReadMax
    \/ LD_Loop
    \/ LD_Return
    \/ (DumpAtRest /\ CallHypervisorCPUIDSig)
    \/ (DumpAtRest /\ CallHypervisorInterfaceSig)

\* a call that has started keeps taking steps
SpecDump == InitDump /\ [][NextDump]_vars /\ WF_vars(DumpSteps)

----------------------------------------------------------------------------
(* Racing calls: each read and each write of a static is a step of its own, *)
(* and the steps of the threads interleave in every order.                  *)

Goto(t, where) == pc' = [pc EXCEPT ![t] = where]

\* line 111 (or line 142 when fast calls are compiled out)
GI_Enter(t) ==
    /\ pc[t] = "idle"
    /\ IF ~USE_HYPERCALL
       THEN /\ retGI' = retGI \cup {BACKDOOR_INTERFACE_IO}
            /\ UNCHANGED pc
       ELSE /\ Goto(t, IF interface = BACKDOOR_INTERFACE_NONE
                       THEN "gi_probe" ELSE "gi_return")
            /\ UNCHANGED retGI
    /\ UNCHANGED <<dump, build, hw, interface, hypervisorPresent, last, retHP,
                   writesGI, writesHP>>

\* lines 113-132
GI_Probe(t) ==
    /\ pc[t] = "gi_probe"
    /\ \E p \in {HostinfoProbeInterface} :
           IF p.store # BACKDOOR_INTERFACE_NONE
           THEN interface' = p.store /\ writesGI' = writesGI \cup {p.store}
           ELSE UNCHANGED <<interface, writesGI>>
    /\ Goto(t, "gi_fallback")
    /\ UNCHANGED <<dump, build, hw, hypervisorPresent, last, retGI, retHP,
                   writesHP>>

\* line 133: the test
GI_Fallback(t) ==
    /\ pc[t] = "gi_fallback"
    /\ Goto(t, IF HostinfoFallbackInterface(interface) # interface
               THEN "gi_store" ELSE "gi_return")
    /\ UNCHANGED <<dump, build, hw, interface, hypervisorPresent, last, retGI,
                   retHP, writesGI, writesHP>>

\* line 134: the store
GI_Store(t) ==
    /\ pc[t] = "gi_store"
    /\ interface' = BACKDOOR_INTERFACE_IO
    /\ writesGI' = writesGI \cup {BACKDOOR_INTERFACE_IO}
    /\ Goto(t, "gi_return")
    /\ UNCHANGED <<dump, build, hw, hypervisorPresent, last, retGI, retHP,
                   writesHP>>

\* line 140
GI_Return(t) ==
    /\ pc[t] = "gi_return"
    /\ retGI' = retGI \cup {interface}
    /\ Goto(t, "idle")
    /\ UNCHANGED <<dump, build, hw, interface, hypervisorPresent, last, retHP,
                   writesGI, writesHP>>

\* line 170
HP_Enter(t) ==
    /\ pc[t] = "idle"
    /\ Goto(t, IF ~hypervisorPresent THEN "hp_probe" ELSE "hp_return")
    /\ UNCHANGED <<dump, build, hw, interface, hypervisorPresent, last, retGI,
                   retHP, writesGI, writesHP>>

\* lines 171-173
HP_Probe(t) ==
    /\ pc[t] = "hp_probe"
    /\ \E v \in {HostinfoProbePresent} :
           hypervisorPresent' = v /\ writesHP' = writesHP \cup {v}
    /\ Goto(t, "hp_return")
    /\ UNCHANGED <<dump, build, hw, interface, last, retGI, retHP, writesGI>>

\* line 175
HP_Return(t) ==
    /\ pc[t] = "hp_return"
    /\ retHP' = retHP \cup {hypervisorPresent}
    /\ Goto(t, "idle")
    /\ UNCHANGED <<dump, build, hw, interface, hypervisorPresent, last, retGI,
                   writesGI, writesHP>>

NextConc ==
    \E t \in Threads :
        \/ GI_Enter(t)
        \/ GI_Probe(t)
        \/ GI_Fallback(t)
        \/ GI_Store(t)
        \/ GI_Return(t)
        \/ HP_Enter(t)
        \/ HP_Probe(t)
        \/ HP_Return(t)

SpecConc == Init /\ [][NextConc]_vars

----------------------------------------------------------------------------
(* Properties                                                               *)

Interfaces ==
    {BACKDOOR_INTERFACE_VMCALL, BACKDOOR_INTERFACE_VMMCALL,
     BACKDOOR_INTERFACE_IO}

\* some thread is in a call of HostinfoBackdoorGetInterface, past line 111
RacingGI(t) == pc[t] \in {"gi_probe", "gi_fallback", "gi_store"}

\* C1: HostinfoBackdoorGetInterface never returns BACKDOOR_INTERFACE_NONE:
\* every value any call has returned, of any thread, in any order of the
\* threads' steps and on every machine, is VMCALL, VMMCALL or IO; and when
\* USE_HYPERCALL is not defined every value returned is IO.
C1_NeverUndetermined ==
    /\ retGI \subseteq Interfaces
    /\ ~USE_HYPERCALL => retGI \subseteq {BACKDOOR_INTERFACE_IO}

\* C1: a call has returned IO on a machine with the hypervisor bit set while
\* another thread, which found the static unset, is about to store to it
C1_Witness ==
    /\ USE_HYPERCALL
    /\ hw.hvBit
    /\ retGI = {BACKDOOR_INTERFACE_IO}
    /\ \E t \in Threads : pc[t] = "gi_store"

\* the decision of claim C2, read off the machine's description
ReferenceInterface ==
    IF ~hw.hvBit THEN BACKDOOR_INTERFACE_IO
    ELSE IF hw.vendor # <<86, 77, 119, 97, 114, 101, 86, 77, 119, 97, 114,
                          101>>
    THEN BACKDOOR_INTERFACE_IO
    ELSE IF hw.maxLeaf[1] < 16384
            \/ (hw.maxLeaf[1] = 16384 /\ hw.maxLeaf[2] < 16)
    THEN BACKDOOR_INTERFACE_IO
    ELSE IF hw.features[2] % 2 = 1 THEN BACKDOOR_INTERFACE_VMCALL
    ELSE IF (hw.features[2] \div 2) % 2 = 1 THEN BACKDOOR_INTERFACE_VMMCALL
    ELSE BACKDOOR_INTERFACE_IO

\* C2: with USE_HYPERCALL defined, what HostinfoBackdoorGetInterface returns
\* is the reference decision: IO without the hypervisor bit, else IO when the
\* vendor of leaf 0x40000000 is not "VMwareVMware", else IO when its maximum
\* leaf is below 0x40000010, else VMCALL when the VMCALL bit is set, else
\* VMMCALL when the VMMCALL bit is set, else IO.
C2_ReferenceDecision ==
    (USE_HYPERCALL /\ last.op = "HostinfoBackdoorGetInterface")
        => last.iface = ReferenceInterface

\* C2: the selector has returned VMCALL on a machine reporting both bits
C2_Witness ==
    /\ USE_HYPERCALL
    /\ last.op = "HostinfoBackdoorGetInterface"
    /\ hw.features = W(0, 3)
    /\ last.iface = BACKDOOR_INTERFACE_VMCALL

\* C3: on one machine, all calls of Hostinfo_HypervisorPresent so far have
\* returned one value and all calls of HostinfoBackdoorGetInterface so far
\* have returned one value, whatever operations were called in between.
C3_Idempotent ==
    /\ Cardinality(retHP) <= 1
    /\ Cardinality(retGI) <= 1

\* C3: a feature query has called the selector after an earlier call of it,
\* the presence check having returned TRUE meanwhile
C3_Witness ==
    /\ last.op = "Hostinfo_NestingSupported"
    /\ last.called
    /\ last.giCalledBefore
    /\ retGI = {BACKDOOR_INTERFACE_VMMCALL}
    /\ retHP = {TRUE}

\* what one call returns when no other thread runs
FinalInterface ==
    HostinfoBackdoorGetInterface(BACKDOOR_INTERFACE_NONE).ret

FinalPresent == Hostinfo_HypervisorPresent(FALSE).ret

\* C4: when threads race through HostinfoBackdoorGetInterface and
\* Hostinfo_HypervisorPresent, every store to a static stores one value, the
\* static holds its initial value or that value, and every call returns that
\* value, the one a call alone would return.
C4_RacesAgree ==
    /\ Cardinality(writesGI) <= 1
    /\ Cardinality(retGI) <= 1
    /\ writesGI \subseteq {FinalInterface}
    /\ retGI \subseteq {FinalInterface}
    /\ interface \in {BACKDOOR_INTERFACE_NONE, FinalInterface}
    /\ Cardinality(writesHP) <= 1
    /\ Cardinality(retHP) <= 1
    /\ writesHP \subseteq {FinalPresent}
    /\ retHP \subseteq {FinalPresent}
    /\ hypervisorPresent \in {FALSE, FinalPresent}

\* C4: a thread that found the static unset is still computing while
\* another, which stored first, has returned and is in a later call
C4_Witness ==
    \E t1, t2 \in Threads :
        /\ t1 # t2
        /\ RacingGI(t1)
        /\ pc[t2] = "gi_return"
        /\ writesGI # {}
        /\ retGI # {}

\* the operations that call Hostinfo_HypervisorPresent (last.ret is what it
\* returned)
PresenceCallers ==
    {"Hostinfo_HypervisorPresent", "Hostinfo_HypervisorCPUIDSig",
     "Hostinfo_HypervisorInterfaceSig"}

SignatureReaders ==
    {"Hostinfo_HypervisorCPUIDSig", "Hostinfo_HypervisorInterfaceSig"}

\* how often leaf is read in a call's reads
ReadCount(leaf, reads) ==
    Cardinality({i \in 1..Len(reads) : reads[i] = leaf})

\* C5 as claimed: of the calls of Hostinfo_HypervisorPresent made one after
\* another, only the first reads leaf 1; a call made after another has
\* returned reads no leaf, whether that result was TRUE or FALSE.
C5_OnlyFirstCallReads ==
    (last.op \in PresenceCallers /\ last.hpCalledBefore)
        => ReadCount(W(0, 1), last.reads) = 0

\* C5 as amended: only the result TRUE is cached. A call made after a call
\* has returned TRUE returns TRUE and reads no leaf; on a machine without the
\* hypervisor bit every call, the first and each later one, reads leaf 1
\* once and returns FALSE; the first call reads leaf 1 once.
C5_OnlyPresentIsCached ==
    last.op \in PresenceCallers =>
        /\ (last.hpCalledBefore /\ hw.hvBit)
               => (last.ret /\ ReadCount(W(0, 1), last.reads) = 0)
        /\ ~hw.hvBit => (~last.ret /\ ReadCount(W(0, 1), last.reads) = 1)
        /\ ~last.hpCalledBefore => ReadCount(W(0, 1), last.reads) = 1

\* C5: a signature reader has called the presence check after an earlier
\* call had returned TRUE, and leaf 1 was not read
C5_Witness ==
    /\ last.op = "Hostinfo_HypervisorCPUIDSig"
    /\ last.hpCalledBefore
    /\ last.hpBefore
    /\ last.ret
    /\ last.reads = <<W(16384, 0)>>

\* C6 as claimed: whatever interface the selector chooses,
\* Hostinfo_TouchBackDoor returns TRUE exactly when the stub hypervisor
\* echoes the magic into ebx.
C6_TrueIffMagicEchoed ==
    last.op = "Hostinfo_TouchBackDoor"
        => (last.ret <=> last.stub.ebx = "echo")

\* C6 as amended: when the selector returns IO (always so on Windows and
\* without USE_HYPERCALL), Hostinfo_TouchBackDoor makes one "inl" exchange
\* with eax = BDOOR_MAGIC, ebx = ~BDOOR_MAGIC (each 16-bit half of the magic
\* complemented), ecx = BDOOR_CMD_GETVERSION, and returns TRUE exactly when
\* the stub echoes the magic into ebx; when the selector returns VMCALL or VMMCALL it makes
\* no exchange and returns TRUE whatever the stub would answer.
C6_TouchByInterface ==
    last.op = "Hostinfo_TouchBackDoor" =>
        IF last.iface = BACKDOOR_INTERFACE_IO
        THEN /\ Len(last.exch) = 1
             /\ last.exch[1].insn = "inl"
             /\ last.exch[1].eax = BDOOR_MAGIC
             /\ last.exch[1].ebx = W(65535 - BDOOR_MAGIC[1],
                                     65535 - BDOOR_MAGIC[2])
             /\ last.exch[1].ecx = W(0, BDOOR_CMD_GETVERSION)
             /\ last.ret <=> last.stub.ebx = "echo"
        ELSE /\ last.iface \in {BACKDOOR_INTERFACE_VMCALL,
                                BACKDOOR_INTERFACE_VMMCALL}
             /\ last.exch = <<>>
             /\ last.ret

\* C6: on a build with USE_HYPERCALL the selector chose IO, the stub left
\* the marker in ebx, and the probe returned FALSE
C6_Witness ==
    /\ USE_HYPERCALL
    /\ last.op = "Hostinfo_TouchBackDoor"
    /\ last.iface = BACKDOOR_INTERFACE_IO
    /\ last.stub.ebx = "leave"
    /\ ~last.ret

\* bit b (0..31) of the 32-bit word w
BitOf(w, b) ==
    IF b < 16 THEN (w[2] \div 2^b) % 2 = 1 ELSE (w[1] \div 2^(b - 16)) % 2 = 1

\* C7: Hostinfo_VCPUInfoBackdoor(bit) returns FALSE for every response with
\* the bit BDOOR_CMD_VCPU_RESERVED set, and otherwise TRUE exactly when bit
\* 'bit' of the response is set; Hostinfo_SynchronizedVTSCs returns what
\* Hostinfo_VCPUInfoBackdoor(BDOOR_CMD_VCPU_SYNC_VTSCS) returns for the same
\* response.
C7_ReservedBitWins ==
    /\ last.op = "Hostinfo_VCPUInfoBackdoor"
           => (last.ret <=> (~BitOf(last.stub.eax, BDOOR_CMD_VCPU_RESERVED)
                             /\ BitOf(last.stub.eax, last.arg)))
    /\ last.op = "Hostinfo_SynchronizedVTSCs"
           => (last.ret <=> (~BitOf(last.stub.eax, BDOOR_CMD_VCPU_RESERVED)
                             /\ BitOf(last.stub.eax,
                                      BDOOR_CMD_VCPU_SYNC_VTSCS)))

\* C7: the response has the reserved bit and the requested bit both set, and
\* the query returned FALSE
C7_Witness ==
    /\ last.op = "Hostinfo_VCPUInfoBackdoor"
    /\ last.arg = 4
    /\ last.stub.eax = W(32768, 18)
    /\ ~last.ret

\* C8: Hostinfo_NestingSupported sends the command word
\* (NESTING_CONTROL_QUERY << 16) | BDOOR_CMD_NESTING_CONTROL (the sub-command
\* in the high half, the command in the low half) in one exchange and returns
\* TRUE exactly when the response, as an unsigned 32-bit integer, is at least
\* NESTING_CONTROL_QUERY and is not 0xFFFFFFFF.
C8_NestingThreshold ==
    last.op = "Hostinfo_NestingSupported" =>
        /\ Len(last.exch) = 1
        /\ last.exch[1].ecx = W(NESTING_CONTROL_QUERY,
                                BDOOR_CMD_NESTING_CONTROL)
        /\ last.ret <=> ((last.stub.eax[1] > 0
                          \/ last.stub.eax[2] >= NESTING_CONTROL_QUERY)
                         /\ last.stub.eax # W(65535, 65535))

\* C8: the response is the all-ones sentinel and the query returned FALSE
C8_Witness ==
    /\ last.op = "Hostinfo_NestingSupported"
    /\ last.stub.eax = W(65535, 65535)
    /\ ~last.ret

\* the bytes of a buffer of words as they lie in memory
RECURSIVE BufferBytes(_)
BufferBytes(words) ==
    IF words = <<>> THEN <<>>
    ELSE BytesOfWord(Head(words)) \o BufferBytes(Tail(words))

\* C9: with the hypervisor bit set, Hostinfo_HypervisorCPUIDSig returns a
\* buffer of four words, the fourth zero, whose sixteen bytes are the twelve
\* bytes of the vendor string of leaf 0x40000000 followed by nul bytes.
C9_VendorRoundTrip ==
    (last.op = "Hostinfo_HypervisorCPUIDSig" /\ hw.hvBit) =>
        /\ ~last.buf.isNull
        /\ Len(last.buf.words) = 4
        /\ last.buf.words[4] = W(0, 0)
        /\ BufferBytes(last.buf.words) = hw.vendor \o <<0, 0, 0, 0>>

\* C9: the reader has returned "Microsoft Hv" with its nul
C9_Witness ==
    /\ last.op = "Hostinfo_HypervisorCPUIDSig"
    /\ BufferBytes(last.buf.words)
           = <<77, 105, 99, 114, 111, 115, 111, 102, 116, 32, 72, 118,
               0, 0, 0, 0>>

\* C10: without the hypervisor bit Hostinfo_HypervisorPresent returns FALSE
\* and both signature readers return NULL, allocate nothing and read no leaf
\* at or above 0x40000000; a signature reader returns a buffer only when the
\* presence check returned TRUE to it and returns TRUE from then on.
C10_AbsentGivesNull ==
    /\ (~hw.hvBit /\ last.op \in PresenceCallers) => ~last.ret
    /\ (~hw.hvBit /\ last.op \in SignatureReaders) =>
           /\ last.buf = NULL
           /\ last.allocs = <<>>
           /\ \A i \in 1..Len(last.reads) : last.reads[i][1] < 16384
    /\ (last.op \in SignatureReaders /\ ~last.buf.isNull) =>
           /\ last.ret
           /\ hypervisorPresent
           /\ Hostinfo_HypervisorPresent(hypervisorPresent).ret

\* C10: the interface signature reader has returned NULL on a machine
\* without the hypervisor bit whose leaves 0x40000000 and 0x40000001 would
\* have given a signature
C10_Witness ==
    /\ last.op = "Hostinfo_HypervisorInterfaceSig"
    /\ ~hw.hvBit
    /\ hw.maxLeaf = W(65535, 65535)
    /\ hw.ifaceRev # W(0, 0)
    /\ last.buf = NULL
    /\ last.reads = <<W(0, 1)>>

\* the maximum leaf the machine reports is below 0x40000000 + k (k = 0, 1)
MaxLeafBelow(k) ==
    hw.maxLeaf[1] < 16384 \/ (hw.maxLeaf[1] = 16384 /\ hw.maxLeaf[2] < k)

\* C11 as claimed: with the hypervisor bit set and the maximum leaf below
\* the one a reader needs, the reader logs its diagnostic and the caller
\* gets what it gets without a hypervisor: NULL from both signature
\* readers, no leaf line from Hostinfo_LogHypervisorCPUID.
C11_AnomalyIsAbsence ==
    /\ (last.op = "Hostinfo_HypervisorCPUIDSig" /\ hw.hvBit
        /\ MaxLeafBelow(0))
           => (last.logs = <<LogNoVendorSig>> /\ last.buf = NULL)
    /\ (last.op = "Hostinfo_HypervisorInterfaceSig" /\ hw.hvBit
        /\ MaxLeafBelow(1))
           => (last.logs = <<LogNoInterfaceSig>> /\ last.buf = NULL)
    /\ (dump.pc = "done" /\ hw.hvBit /\ MaxLeafBelow(0))
           => dump.logs = <<LogNoVendorSig>>

\* C11 as amended: with the hypervisor bit set and the maximum leaf below
\* the one a reader needs, every reader logs its diagnostic;
\* Hostinfo_HypervisorInterfaceSig then returns NULL without reading leaf
\* 0x40000001 or allocating and Hostinfo_LogHypervisorCPUID logs no leaf
\* line, but Hostinfo_HypervisorCPUIDSig still allocates and returns the
\* four-word buffer made of ebx, ecx, edx of leaf 0x40000000 and a zero.
C11_AnomalyLoggedSigStillReturned ==
    /\ (last.op = "Hostinfo_HypervisorCPUIDSig" /\ hw.hvBit
        /\ MaxLeafBelow(0))
           => /\ last.logs = <<LogNoVendorSig>>
              /\ last.allocs = <<4>>
              /\ ~last.buf.isNull
              /\ BufferBytes(last.buf.words) = hw.vendor \o <<0, 0, 0, 0>>
    /\ (last.op = "Hostinfo_HypervisorInterfaceSig" /\ hw.hvBit
        /\ MaxLeafBelow(1))
           => /\ last.logs = <<LogNoInterfaceSig>>
              /\ last.buf = NULL
              /\ last.allocs = <<>>
              /\ ReadCount(W(16384, 1), last.reads) = 0
    /\ (dump.pc = "done" /\ hw.hvBit /\ MaxLeafBelow(0))
           => /\ dump.logs = <<LogNoVendorSig>>
              /\ ReadCount(W(16384, 0), dump.reads) = 1

\* C11: on a machine with the hypervisor bit whose leaf 0x40000000 reports
\* maximum 0, the vendor signature reader has logged the diagnostic and
\* returned a buffer, and the leaf dump has ended without a leaf line
C11_Witness ==
    /\ hw.hvBit
    /\ hw.maxLeaf = W(0, 0)
    /\ last.op = "Hostinfo_HypervisorCPUIDSig"
    /\ last.logs = <<LogNoVendorSig>>
    /\ ~last.buf.isNull
    /\ dump.pc = "done"
    /\ dump.logs = <<LogNoVendorSig>>

\* the maximum leaf the machine reports is at least 0x40000001
MaxLeafReachesInterface ==
    hw.maxLeaf[1] > 16384 \/ (hw.maxLeaf[1] = 16384 /\ hw.maxLeaf[2] >= 1)

\* C12: Hostinfo_HypervisorInterfaceSig returns a buffer exactly when the
\* hypervisor bit is set, the maximum leaf of leaf 0x40000000 is at least
\* 0x40000001 and eax of leaf 0x40000001 is nonzero; the buffer is that eax
\* and a zero word; otherwise it returns NULL; leaf 0x40000001 is read
\* exactly when the bit is set and the maximum reaches it.
C12_InterfaceSigExactly ==
    last.op = "Hostinfo_HypervisorInterfaceSig" =>
        /\ ~last.buf.isNull
               <=> (hw.hvBit /\ MaxLeafReachesInterface
                    /\ hw.ifaceRev # W(0, 0))
        /\ ~last.buf.isNull
               => (last.buf.words = <<hw.ifaceRev, W(0, 0)>>
                   /\ last.allocs = <<2>>)
        /\ last.buf.isNull => (last.buf = NULL /\ last.allocs = <<>>)
        /\ ReadCount(W(16384, 1), last.reads) > 0
               <=> (hw.hvBit /\ MaxLeafReachesInterface)

\* C12: the maximum leaf is exactly 0x40000001 and the reader has returned
\* the revision of that leaf followed by a zero word
C12_Witness ==
    /\ last.op = "Hostinfo_HypervisorInterfaceSig"
    /\ hw.maxLeaf = W(16384, 1)
    /\ last.buf.words = <<W(12598, 22600), W(0, 0)>>

\* the feature queries
FeatureQueries ==
    {"Hostinfo_TouchBackDoor", "Hostinfo_GetNestedBuildNum",
     "Hostinfo_NestingSupported", "Hostinfo_VCPUInfoBackdoor",
     "Hostinfo_SynchronizedVTSCs"}

\* the instruction that goes with an interface
InstructionOf(iface) ==
    CASE iface = BACKDOOR_INTERFACE_VMCALL -> "vmcall"
      [] iface = BACKDOOR_INTERFACE_VMMCALL -> "vmmcall"
      [] iface = BACKDOOR_INTERFACE_IO -> "inl"
      [] OTHER -> "none"

\* C13 as claimed: every feature query, the touch probe included, makes
\* exactly one exchange per call, with the instruction of the interface
\* selected for the call, and Hostinfo_GetNestedBuildNum returns the
\* response unchanged.
C13_OneExchangePerCall ==
    /\ last.op \in FeatureQueries
           => (Len(last.exch) = 1
               /\ last.exch[1].insn = InstructionOf(last.iface))
    /\ last.op = "Hostinfo_GetNestedBuildNum" => last.num = last.stub.eax

\* C13 as amended: Hostinfo_GetNestedBuildNum, Hostinfo_NestingSupported,
\* Hostinfo_VCPUInfoBackdoor and Hostinfo_SynchronizedVTSCs make exactly one
\* exchange per call with the instruction of the selected interface (the
\* port on Windows, where the selector is not consulted);
\* Hostinfo_TouchBackDoor makes one port exchange when the interface is IO
\* and none when it is VMCALL or VMMCALL; Hostinfo_GetNestedBuildNum
\* returns the response unchanged, 0xFFFFFFFF included.
C13_OneExchangeButTouch ==
    /\ last.op \in FeatureQueries \ {"Hostinfo_TouchBackDoor"}
           => /\ Len(last.exch) = 1
              /\ last.exch[1].insn = InstructionOf(last.iface)
              /\ last.exch[1].eax = BDOOR_MAGIC
    /\ last.op = "Hostinfo_TouchBackDoor"
           => /\ Len(last.exch)
                     = (IF last.iface = BACKDOOR_INTERFACE_IO THEN 1 ELSE 0)
              /\ \A i \in 1..Len(last.exch) : last.exch[i].insn = "inl"
    /\ last.op \in FeatureQueries
           => /\ last.iface \in Interfaces
              /\ last.called => last.iface \in retGI
              /\ ~last.called => build = "win32"
              /\ ~USE_HYPERCALL => last.iface = BACKDOOR_INTERFACE_IO
    /\ last.op = "Hostinfo_GetNestedBuildNum" => last.num = last.stub.eax

\* C13: the build number query has gone over vmmcall and returned the
\* sentinel 0xFFFFFFFF as the stub gave it
C13_Witness ==
    /\ last.op = "Hostinfo_GetNestedBuildNum"
    /\ last.iface = BACKDOOR_INTERFACE_VMMCALL
    /\ Len(last.exch) = 1
    /\ last.exch[1].insn = "vmmcall"
    /\ last.stub.eax = W(65535, 65535)
    /\ last.num = W(65535, 65535)

\* the leaves at and above 0x40000000 among reads, in the order read
HypervisorReads(reads) ==
    SelectSeq(reads, LAMBDA l : l[1] >= 16384)

\* how many leaves the loop of the dump covers on this machine:
\* min(maximum leaf, 0x400000FF) - 0x40000000 + 1
DumpCount ==
    IF hw.maxLeaf[1] > 16384 \/ hw.maxLeaf[2] > 255 THEN 256
    ELSE hw.maxLeaf[2] + 1

\* what a finished call of the leaf dump has read and logged
DumpDone ==
    dump.pc = "done" =>
        IF ~hw.hvBit
        THEN HypervisorReads(dump.reads) = <<>>
             /\ dump.logs = <<LogNotFound>>
        ELSE IF MaxLeafBelow(0)
        THEN HypervisorReads(dump.reads) = <<W(16384, 0)>>
        ELSE /\ HypervisorReads(dump.reads)
                    = <<W(16384, 0)>>
                      \o [i \in 1..DumpCount |-> W(16384, i - 1)]
             /\ dump.logs
                    = <<LogHeader>>
                      \o [i \in 1..DumpCount |->
                             [leaf |-> W(16384, i - 1),
                              regs |-> CPUID(W(16384, i - 1))]]

\* no call of the leaf dump reads a leaf above 0x400000FF or more than 256
\* leaves in its loop
DumpBounded ==
    /\ \A i \in 1..Len(dump.reads) :
           \/ dump.reads[i] = W(0, 1)
           \/ (dump.reads[i][1] = 16384 /\ dump.reads[i][2] <= 255)
    /\ Len(HypervisorReads(dump.reads)) <= 257

\* C14: every call of Hostinfo_LogHypervisorCPUID ends, whatever maximum
\* leaf 0x40000000 reports; with the hypervisor bit set and the maximum at
\* least 0x40000000 it has then, after the one read of leaf 0x40000000 that
\* gives the maximum, read and logged each leaf from 0x40000000 to
\* min(maximum, 0x400000FF) once, in ascending order, at most 256 leaves; it
\* never reads a leaf above 0x400000FF; without the hypervisor bit it reads
\* no hypervisor leaf.
C14_DumpTerminatesBounded ==
    /\ [](DumpDone /\ DumpBounded)
    /\ (dump.pc \in {"read_max", "loop"}) ~> (dump.pc = "done")

\* C14: on a machine reporting the maximum 0xFFFFFFFF the dump has ended
\* after logging the header and 256 leaf lines, the last for 0x400000FF
C14_Witness ==
    /\ dump.pc = "done"
    /\ hw.hvBit
    /\ hw.maxLeaf = W(65535, 65535)
    /\ Len(dump.logs) = 257
    /\ dump.logs[257].leaf = W(16384, 255)

====
